---- MODULE Spec2Model ----
(***************************************************************************)
(* Model of src/app.py: the PortfolioState aggregator (positions,          *)
(* executions, orders, quotes, diagnostic log), the RedisSubscriber        *)
(* thread and the readers that poll the aggregator.                        *)
(*                                                                         *)
(* Numbers.  A quantity is a count of shares.  Every monetary amount       *)
(* (avgCost, price, currentPrice, marketValue, totalCost, unrealizedPnl)   *)
(* is an integer number of thousandths, so round(x, 2) is an operation     *)
(* that changes values.  Inputs whose third decimal is 5 are not drawn:    *)
(* for them the binary representation of the float decides the rounding.   *)
(*                                                                         *)
(* Python dicts are records over a fixed universe of keys; a key the dict  *)
(* does not hold has the value Absent.  A dict that is mutated in place    *)
(* (a position, a quote) lives in the heap and is named by a reference.    *)
(***************************************************************************)
EXTENDS Integers, Sequences, FiniteSets, TLC

VARIABLES
    positions,          \* PortfolioState.positions: symbol -> reference
    executions,         \* PortfolioState.executions: deque(maxlen=100)
    orders,             \* PortfolioState.orders: clOrdId -> dict
    market_data,        \* PortfolioState.market_data: symbol -> reference
    portfolio_summary,  \* PortfolioState.portfolio_summary: references of the
                        \* position dicts of the bootstrap response
    last_update,        \* PortfolioState.last_update
    connected,          \* PortfolioState.connected
    update_log,         \* PortfolioState.update_log: deque(maxlen=50)
    heap,               \* reference -> dict, the dicts reachable from the state
    clock,              \* the wall clock, one tick per input taken
    lastOp,             \* history: the engine call that ran last
    pendingDerived,     \* history: symbols whose Position got a new currentPrice
                        \* from a quote that entered the recompute branch and
                        \* has not stored the derived fields
    pc,                 \* thread -> the statement it executes next
    running,            \* RedisSubscriber.running
    redis_client,       \* RedisSubscriber.redis_client
    pubsub,             \* RedisSubscriber.pubsub
    caller,             \* which call of connect() is running: run's first or its retry
    inbox,              \* the message get_message returned
    call,               \* thread -> the PortfolioState method it is inside
    lock,               \* PortfolioState.lock: "free" or the thread holding it
    snapshot,           \* what the last get_*_df / get_update_log returned
    faults,             \* transport failures so far
    reads,              \* reader callbacks so far
    stopped,            \* history: stop() has been called
    since_failed        \* time units known to have passed since the last failed
                        \* connection attempt, counted up to the backoff delay

engineVars == <<positions, executions, orders, market_data, portfolio_summary,
                last_update, connected, update_log, heap, pendingDerived>>
sysVars == <<pc, running, redis_client, pubsub, caller, inbox, call, lock,
             snapshot, faults, reads, stopped, since_failed>>
vars == <<engineVars, clock, lastOp, sysVars>>

-----------------------------------------------------------------------------
(* Bounds of the model *)

MaxOps == 3

(* Program constants *)

ExecMaxLen == 100
LogMaxLen == 50
BackoffDelay == 5

-----------------------------------------------------------------------------
(* Values held under a dict key *)

Num(n) == [k |-> "num", v |-> n]
NumStr(n) == [k |-> "numstr", v |-> n]
BadStr == [k |-> "str", v |-> 0]
Null == [k |-> "null", v |-> 0]
Absent == [k |-> "absent", v |-> 0]
Time(t) == [k |-> "time", v |-> t]

NoSymbol == ""

EmptyDict ==
    [symbol |-> NoSymbol, clOrdId |-> NoSymbol,
     quantity |-> Absent, avgCost |-> Absent, currentPrice |-> Absent,
     marketValue |-> Absent, unrealizedPnl |-> Absent, totalCost |-> Absent,
     lastUpdated |-> Absent, price |-> Absent, receivedAt |-> Absent,
     status |-> Absent, lastQuantity |-> Absent]

Get(d, default) == IF d.k = "absent" THEN default ELSE d

Truthy(x) == x.k \in {"numstr", "str", "time"} \/ (x.k = "num" /\ x.v # 0)

Floatable_rejects_zero(x) == x.k \in {"num", "numstr"} /\ x.v # 0

Floatable(x) == x.k \in {"num", "numstr"}

IsNumber(x) == x.k = "num"

Abs(n) == IF n < 0 THEN -n ELSE n

Min(a, b) == IF a < b THEN a ELSE b

round2(x) ==
    LET a == Abs(x)
        q == a \div 10
        r == a % 10
        up == r > 5 \/ (r = 5 /\ q % 2 = 1)
        m == 10 * (IF up THEN q + 1 ELSE q)
    IN IF x < 0 THEN -m ELSE m

EmptyMap == [x \in {} |-> 0]

-----------------------------------------------------------------------------
(* The heap *)

NewRef(h) == CHOOSE r \in 1..(Cardinality(DOMAIN h) + 1) : r \notin DOMAIN h

Range(f) == {f[x] : x \in DOMAIN f}

Live(S) == Range(S.positions) \cup Range(S.market_data) \cup Range(S.portfolio_summary)

Collect(S, keep) ==
    [S EXCEPT !.heap = [r \in (DOMAIN S.heap) \cap (Live(S) \cup keep) |-> S.heap[r]]]

-----------------------------------------------------------------------------
(* PortfolioState *)

State ==
    [positions |-> positions, executions |-> executions, orders |-> orders,
     market_data |-> market_data, portfolio_summary |-> portfolio_summary,
     last_update |-> last_update, connected |-> connected,
     update_log |-> update_log, heap |-> heap, pendingDerived |-> pendingDerived]

Commit(S) ==
    /\ positions' = S.positions
    /\ executions' = S.executions
    /\ orders' = S.orders
    /\ market_data' = S.market_data
    /\ portfolio_summary' = S.portfolio_summary
    /\ last_update' = S.last_update
    /\ connected' = S.connected
    /\ update_log' = S.update_log
    /\ heap' = S.heap
    /\ pendingDerived' = S.pendingDerived

Ret(S) == [st |-> S, exc |-> "none"]
Raise(S, e) == [st |-> S, exc |-> e]

appendleft_drops_newest(q, x, maxlen) ==
    IF Len(q) < maxlen THEN <<x>> \o q ELSE q

appendleft(q, x, maxlen) == SubSeq(<<x>> \o q, 1, Min(Len(q) + 1, maxlen))

log_update(S, msg) ==
    [S EXCEPT !.update_log = appendleft(@, msg, LogMaxLen)]

update_position_copies(S, ref, now) ==
    LET position_data == S.heap[ref]
        symbol == position_data.symbol
        copy == NewRef(S.heap)
    IN IF symbol # NoSymbol
       THEN Ret(log_update(
                [S EXCEPT !.heap = (copy :> position_data) @@ @,
                          !.positions = (symbol :> copy) @@ @,
                          !.last_update = Time(now),
                          !.pendingDerived = @ \ {symbol}],
                <<"Position updated", symbol>>))
       ELSE Ret(S)

update_position(S, ref, now) ==
    LET position_data == S.heap[ref]
        symbol == position_data.symbol
    IN IF symbol # NoSymbol
       THEN Ret(log_update(
                [S EXCEPT !.positions = (symbol :> ref) @@ @,
                          !.last_update = Time(now),
                          !.pendingDerived = @ \ {symbol}],
                <<"Position updated", symbol>>))
       ELSE Ret(S)

reject_quote_drops_stored(S, msg) ==
    [log_update(S, msg) EXCEPT
        !.market_data = [s \in (DOMAIN @) \ {msg[2]} |-> @[s]]]

reject_quote(S, msg) == log_update(S, msg)

avg_cost_of(position) ==
    LET avg_cost == Get(position.avgCost, Num(0))
    IN IF Truthy(avg_cost) /\ Floatable(avg_cost) THEN avg_cost.v ELSE 0

unrealized_pnl_long_only(quantity, market_value, total_cost) ==
    market_value - total_cost

unrealized_pnl(quantity, market_value, total_cost) ==
    IF quantity > 0 THEN market_value - total_cost ELSE total_cost - market_value

recalc_stale_cost(position, price) ==
    LET quantity == Get(position.quantity, Num(0)).v
        market_value == price * Abs(quantity)
        total_cost == avg_cost_of(position) * Abs(quantity)
    IN [position EXCEPT
           !.marketValue = Num(round2(market_value)),
           !.unrealizedPnl = Num(round2(unrealized_pnl(quantity, market_value, total_cost)))]

recalc(position, price) ==
    LET quantity == Get(position.quantity, Num(0)).v
        abs_qty == Abs(quantity)
        market_value == price * abs_qty
        total_cost == avg_cost_of(position) * abs_qty
    IN [position EXCEPT
           !.marketValue = Num(round2(market_value)),
           !.unrealizedPnl = Num(round2(unrealized_pnl(quantity, market_value, total_cost))),
           !.totalCost = Num(round2(total_cost))]

NonZero_always(quantity) == TRUE

NonZero(quantity) == ~(quantity.k = "num" /\ quantity.v = 0)

update_market_data_store_creates_position(S, ref, now) ==
    LET md == S.heap[ref]
        symbol == md.symbol
        price == Get(md.price, Null)
    IN IF symbol = NoSymbol
         THEN [st |-> reject_quote(S, <<"Market data missing symbol", symbol>>), done |-> TRUE]
       ELSE IF price.k = "null"
         THEN [st |-> reject_quote(S, <<"Market data missing price", symbol>>), done |-> TRUE]
       ELSE IF ~(price.k \in {"num", "numstr"})
         THEN [st |-> reject_quote(S, <<"Invalid price", symbol>>), done |-> TRUE]
       ELSE
         LET h1 == [S.heap EXCEPT ![ref].price = Num(price.v),
                                  ![ref].receivedAt = Time(now)]
             S1 == [S EXCEPT !.heap = h1,
                             !.market_data = (symbol :> ref) @@ @,
                             !.positions = (symbol :> ref) @@ @]
         IN [st |-> [S1 EXCEPT !.heap[ref].currentPrice = Num(price.v)], done |-> FALSE]

(* update_market_data, lines 76-114: validation, the quote is stored, the   *)
(* position's currentPrice is overwritten.  done = the call returned.       *)
update_market_data_store(S, ref, now) ==
    LET md == S.heap[ref]
        symbol == md.symbol
        price == Get(md.price, Null)
    IN IF symbol = NoSymbol
         THEN [st |-> reject_quote(S, <<"Market data missing symbol", symbol>>), done |-> TRUE]
       ELSE IF price.k = "null"
         THEN [st |-> reject_quote(S, <<"Market data missing price", symbol>>), done |-> TRUE]
       ELSE IF ~Floatable(price)
         THEN [st |-> reject_quote(S, <<"Invalid price", symbol>>), done |-> TRUE]
       ELSE
         LET h1 == [S.heap EXCEPT ![ref].price = Num(price.v),
                                  ![ref].receivedAt = Time(now)]
             S1 == [S EXCEPT !.heap = h1,
                             !.market_data = (symbol :> ref) @@ @]
         IN IF symbol \in DOMAIN S.positions
            THEN LET p == S.positions[symbol]
                     quantity == Get(h1[p].quantity, Num(0))
                 IN [st |-> [S1 EXCEPT !.heap[p].currentPrice = Num(price.v),
                                       !.pendingDerived =
                                           IF NonZero(quantity) THEN @ \cup {symbol} ELSE @],
                     done |-> FALSE]
            ELSE [st |-> S1, done |-> FALSE]

(* update_market_data, lines 117-141: the derived fields, lastUpdated, the  *)
(* log line and last_update.                                                *)
update_market_data_recalc(S, ref, now) ==
    LET symbol == S.heap[ref].symbol
        price == S.heap[ref].price.v
    IN IF symbol \in DOMAIN S.positions
       THEN LET p == S.positions[symbol]
                position == S.heap[p]
                quantity == Get(position.quantity, Num(0))
            IN IF NonZero(quantity) /\ ~IsNumber(quantity)
               THEN Raise(S, "TypeError")
               ELSE LET position2 == IF NonZero(quantity) THEN recalc(position, price)
                                                          ELSE position
                        S2 == [S EXCEPT !.heap[p] = [position2 EXCEPT !.lastUpdated = Time(now)],
                                        !.pendingDerived = @ \ {symbol}]
                    IN IF ~IsNumber(Get(position2.unrealizedPnl, Num(0)))
                       THEN Raise(S2, "FormatError")
                       ELSE Ret([log_update(S2, <<"Position price updated", symbol>>)
                                    EXCEPT !.last_update = Time(now)])
       ELSE Ret([log_update(S, <<"Market data received (no position)", symbol>>)
                    EXCEPT !.last_update = Time(now)])

update_market_data(S, ref, now) ==
    LET a == update_market_data_store(S, ref, now)
    IN IF a.done THEN Ret(a.st) ELSE update_market_data_recalc(a.st, ref, now)

add_execution(S, exec_data, now) ==
    Ret(log_update(
        [S EXCEPT !.executions = appendleft(@, exec_data, ExecMaxLen),
                  !.last_update = Time(now)],
        <<"Execution", exec_data.symbol>>))

update_order_merges(S, order_data, now) ==
    LET cl_ord_id == order_data.clOrdId
        old == IF cl_ord_id \in DOMAIN S.orders THEN S.orders[cl_ord_id] ELSE EmptyDict
        merged == [f \in DOMAIN EmptyDict |->
                     IF order_data[f] = EmptyDict[f] THEN old[f] ELSE order_data[f]]
    IN IF cl_ord_id # NoSymbol
       THEN Ret(log_update(
                [S EXCEPT !.orders = (cl_ord_id :> merged) @@ @,
                          !.last_update = Time(now)],
                <<"Order", cl_ord_id>>))
       ELSE Ret(S)

update_order(S, order_data, now) ==
    LET cl_ord_id == order_data.clOrdId
    IN IF cl_ord_id # NoSymbol
       THEN Ret(log_update(
                [S EXCEPT !.orders = (cl_ord_id :> order_data) @@ @,
                          !.last_update = Time(now)],
                <<"Order", cl_ord_id>>))
       ELSE Ret(S)

-----------------------------------------------------------------------------
(* Inputs *)

Pos(sym, qty, avg) ==
    [EmptyDict EXCEPT !.symbol = sym, !.quantity = qty, !.avgCost = avg]

PositionInputs ==
    { Pos("AAPL", Num(100), Num(150000)),
      Pos("AAPL", Num(-50), NumStr(200000)),
      Pos("AAPL", Num(1), Num(6)),
      [Pos("AAPL", Num(2), Num(1000)) EXCEPT !.currentPrice = Num(3000),
                                             !.marketValue = Num(7770),
                                             !.unrealizedPnl = Num(10),
                                             !.totalCost = Num(2000)],
      [Pos("AAPL", Num(0), Num(150000)) EXCEPT !.marketValue = Num(0),
                                               !.unrealizedPnl = Null],
      [Pos("AAPL", Num(0), BadStr) EXCEPT !.marketValue = Num(0),
                                          !.unrealizedPnl = Num(0),
                                          !.totalCost = Num(0)],
      [Pos("AAPL", Num(0), Num(1000)) EXCEPT !.currentPrice = Num(3000),
                                             !.marketValue = Num(7770),
                                             !.unrealizedPnl = Num(10),
                                             !.totalCost = Num(2000)],
      Pos("AAPL", NumStr(100), Num(150000)),
      [Pos("AAPL", Null, Num(150000)) EXCEPT !.currentPrice = Num(150000),
                                             !.marketValue = Num(0)],
      Pos("MSFT", Num(10), Absent),
      Pos(NoSymbol, Num(5), Num(1000)) }

Quote(sym, price) == [EmptyDict EXCEPT !.symbol = sym, !.price = price]

QuoteInputs ==
    { Quote("AAPL", Num(160000)),
      Quote("AAPL", NumStr(190000)),
      Quote("AAPL", Num(1004)),
      Quote("AAPL", Num(0)),
      Quote("AAPL", BadStr),
      Quote("AAPL", Null),
      Quote("AAPL", Absent),
      Quote("MSFT", Num(1004)),
      Quote(NoSymbol, Num(160000)) }

Order(id, st) == [EmptyDict EXCEPT !.clOrdId = id, !.status = st, !.symbol = "AAPL"]

OrderInputs ==
    { Order("ORD1", Num(1)),
      [Order("ORD1", Num(2)) EXCEPT !.symbol = NoSymbol],
      Order("ORD2", Num(1)),
      Order(NoSymbol, Num(1)) }

ExecRecord(n) == [EmptyDict EXCEPT !.symbol = "AAPL", !.lastQuantity = Num(n)]

-----------------------------------------------------------------------------
(* Threads, messages and calls in progress *)

Threads == {"sub", "main", "ui"}

NoCall == [op |-> "none", ref |-> 0, rec |-> EmptyDict, isdict |-> TRUE,
           exc |-> "none", ret |-> "none", onexc |-> "none"]

NoMessage == [channel |-> "none", data |-> [tag |-> "other"]]

NoSnapshot == [kind |-> "none", rows |-> <<>>, torn |-> {}]

-----------------------------------------------------------------------------
(* The engine's operations, each one call under the state lock *)

Init ==
    /\ positions = EmptyMap
    /\ executions = <<>>
    /\ orders = EmptyMap
    /\ market_data = EmptyMap
    /\ portfolio_summary = <<>>
    /\ last_update = Null
    /\ connected = FALSE
    /\ update_log = <<>>
    /\ heap = EmptyMap
    /\ clock = 0
    /\ lastOp = [name |-> "none", arg |-> EmptyDict, exc |-> "none"]
    /\ pendingDerived = {}
    /\ pc = [t \in Threads |-> IF t = "sub" THEN "unstarted"
                               ELSE IF t = "main" THEN "m_start" ELSE "idle"]
    /\ running = FALSE
    /\ redis_client = "none"
    /\ pubsub = "none"
    /\ caller = "none"
    /\ inbox = NoMessage
    /\ call = [t \in Threads |-> NoCall]
    /\ lock = "free"
    /\ snapshot = NoSnapshot
    /\ faults = 0
    /\ reads = 0
    /\ stopped = FALSE
    /\ since_failed = BackoffDelay

Call(name, arg, res) ==
    /\ Commit(Collect(res.st, {}))
    /\ clock' = clock + 1
    /\ lastOp' = [name |-> name, arg |-> arg, exc |-> res.exc]
    /\ UNCHANGED sysVars

WithArg(rec) == [State EXCEPT !.heap = (NewRef(heap) :> rec) @@ @]

ApplyPosition(limit) ==
    /\ clock < limit
    /\ \E rec \in PositionInputs :
          Call("ApplyPosition", rec,
               update_position(WithArg(rec), NewRef(heap), clock + 1))

ApplyQuote(limit) ==
    /\ clock < limit
    /\ \E rec \in QuoteInputs :
          Call("ApplyQuote", rec,
               update_market_data(WithArg(rec), NewRef(heap), clock + 1))

ApplyExecution(limit) ==
    /\ clock < limit
    /\ Call("ApplyExecution", ExecRecord(clock + 1),
            add_execution(State, ExecRecord(clock + 1), clock + 1))

ApplyOrder(limit) ==
    /\ clock < limit
    /\ \E rec \in OrderInputs :
          Call("ApplyOrder", rec, update_order(State, rec, clock + 1))

Next ==
    \/ ApplyPosition(MaxOps)
    \/ ApplyQuote(MaxOps)
    \/ ApplyExecution(MaxOps)
    \/ ApplyOrder(MaxOps)

Spec == Init /\ [][Next]_vars

(* The execution deque alone, filled past its capacity *)

MaxExecInserts == 102

NextExec == ApplyExecution(MaxExecInserts)

SpecExec == Init /\ [][NextExec]_vars

-----------------------------------------------------------------------------
(* JSON texts and values, and the decoding of handle_message *)

REDIS_CHANNELS ==
    [positions |-> "positions:updates", executions |-> "executions:updates",
     orders |-> "orders:updates", marketdata |-> "marketdata:updates"]

JsonOther == [tag |-> "other"]

DictBody(rec) == [tag |-> "dict", rec |-> rec]

NoBody == [tag |-> "absent", rec |-> EmptyDict]

OtherBody == [tag |-> "other", rec |-> EmptyDict]

Envelope(type, body) == [tag |-> "dict", type |-> type, body |-> body]

Text(v) == [tag |-> "str", wf |-> TRUE, inner |-> v]

Garbage == [tag |-> "str", wf |-> FALSE, inner |-> JsonOther]

json_loads(t) ==
    IF t.wf THEN [err |-> FALSE, val |-> t.inner] ELSE [err |-> TRUE, val |-> t]

decode_one_layer(data) == json_loads(data)

decode(data) ==
    LET first == json_loads(data)
    IN IF first.err THEN first
       ELSE IF first.val.tag = "str" THEN json_loads(first.val)
       ELSE first

msg_type_of(payload) == IF payload.tag = "dict" THEN payload.type ELSE ""

msg_data_of(payload) ==
    IF payload.tag = "dict" /\ payload.body.tag # "absent"
    THEN payload.body ELSE DictBody(EmptyDict)

route_orders_typed(channel, payload) ==
    LET msg_type == msg_type_of(payload)
        msg_data == msg_data_of(payload)
    IN IF channel = REDIS_CHANNELS.positions
         THEN IF msg_type = "POSITION_UPDATE" THEN "update_position" ELSE "none"
       ELSE IF channel = REDIS_CHANNELS.executions
         THEN IF msg_type = "EXECUTION" THEN "add_execution" ELSE "none"
       ELSE IF channel = REDIS_CHANNELS.orders
         THEN IF msg_type = "ORDER_UPDATE" /\ msg_data.tag = "dict" /\ msg_data.rec # EmptyDict
              THEN "update_order" ELSE "none"
       ELSE IF channel = REDIS_CHANNELS.marketdata
         THEN IF msg_type = "MARKET_DATA" THEN "update_market_data" ELSE "none"
       ELSE "none"

route_any_type(channel, payload) ==
    LET msg_data == msg_data_of(payload)
    IN IF channel = REDIS_CHANNELS.positions THEN "update_position"
       ELSE IF channel = REDIS_CHANNELS.executions THEN "add_execution"
       ELSE IF channel = REDIS_CHANNELS.orders
         THEN IF msg_data.tag = "dict" /\ msg_data.rec # EmptyDict
              THEN "update_order" ELSE "none"
       ELSE IF channel = REDIS_CHANNELS.marketdata THEN "update_market_data"
       ELSE "none"

route(channel, payload) ==
    LET msg_type == msg_type_of(payload)
        msg_data == msg_data_of(payload)
    IN IF channel = REDIS_CHANNELS.positions
         THEN IF msg_type = "POSITION_UPDATE" THEN "update_position" ELSE "none"
       ELSE IF channel = REDIS_CHANNELS.executions
         THEN IF msg_type = "EXECUTION" THEN "add_execution" ELSE "none"
       ELSE IF channel = REDIS_CHANNELS.orders
         THEN IF msg_data.tag = "dict" /\ msg_data.rec # EmptyDict
              THEN "update_order" ELSE "none"
       ELSE IF channel = REDIS_CHANNELS.marketdata
         THEN IF msg_type = "MARKET_DATA" THEN "update_market_data" ELSE "none"
       ELSE "none"

Message(channel, type, body) ==
    [channel |-> channel, data |-> Text(Envelope(type, body))]

Messages ==
    { Message(REDIS_CHANNELS.positions, "POSITION_UPDATE",
              DictBody(Pos("AAPL", NumStr(100), Num(150000)))),
      Message(REDIS_CHANNELS.marketdata, "MARKET_DATA",
              DictBody(Quote("AAPL", Num(160000)))),
      Message(REDIS_CHANNELS.executions, "EXECUTION", DictBody(ExecRecord(7))),
      Message(REDIS_CHANNELS.orders, "", DictBody(Order("ORD1", Num(1)))),
      Message(REDIS_CHANNELS.positions, "EXECUTION",
              DictBody(Pos("MSFT", Num(10), Absent))),
      [channel |-> REDIS_CHANNELS.marketdata, data |-> Garbage] }

-----------------------------------------------------------------------------
(* A call of a PortfolioState method by thread t: acquire the lock, run the *)
(* body, release the lock (the with statement releases it on return and on  *)
(* an exception alike), continue at ret or, after an exception, at onexc.   *)

MaxMsgs == 2
MaxFaults == 3

InFlight == {call[t].ref : t \in Threads} \ {0}

Goto(t, l) == pc' = [pc EXCEPT ![t] = l]

Acquire(t) ==
    /\ pc[t] = "acquire"
    /\ lock = "free"
    /\ lock' = t
    /\ Goto(t, "body")
    /\ UNCHANGED <<engineVars, clock, lastOp, running, redis_client, pubsub,
                   caller, inbox, call, snapshot, faults, reads, stopped,
                   since_failed>>

coerce(v) == IF Floatable(v) THEN Num(v.v) ELSE Num(0)

coerce_nan(v) == IF Floatable(v) THEN Num(v.v) ELSE [k |-> "nan", v |-> 0]

PositionColumns ==
    {"quantity", "avgCost", "currentPrice", "marketValue", "unrealizedPnl", "totalCost"}

get_positions_df(S) ==
    LET present == {c \in PositionColumns :
                       \E s \in DOMAIN S.positions : S.heap[S.positions[s]][c].k # "absent"}
    IN [kind |-> "positions",
        rows |-> [s \in DOMAIN S.positions |->
                    [c \in DOMAIN EmptyDict |->
                        IF c \in present THEN coerce(S.heap[S.positions[s]][c])
                        ELSE S.heap[S.positions[s]][c]]],
        torn |-> S.pendingDerived \cap DOMAIN S.positions]

get_market_data_df(S) ==
    LET present == \E s \in DOMAIN S.market_data : S.heap[S.market_data[s]].price.k # "absent"
    IN [kind |-> "quotes",
        rows |-> [s \in DOMAIN S.market_data |->
                    [c \in DOMAIN EmptyDict |->
                        IF c = "price" /\ present
                        THEN coerce_nan(S.heap[S.market_data[s]][c])
                        ELSE S.heap[S.market_data[s]][c]]],
        torn |-> {}]

get_executions_df(S) == [kind |-> "executions", rows |-> S.executions, torn |-> {}]

get_orders_df(S) == [kind |-> "orders", rows |-> S.orders, torn |-> {}]

get_update_log(S) == [kind |-> "log", rows |-> S.update_log, torn |-> {}]

SnapshotOps == {"get_positions_df", "get_executions_df", "get_orders_df",
                "get_market_data_df", "get_update_log"}

take_snapshot(op, S) ==
    IF op = "get_positions_df" THEN get_positions_df(S)
    ELSE IF op = "get_executions_df" THEN get_executions_df(S)
    ELSE IF op = "get_orders_df" THEN get_orders_df(S)
    ELSE IF op = "get_market_data_df" THEN get_market_data_df(S)
    ELSE get_update_log(S)

(* What the body does up to its end or, in update_market_data, up to line   *)
(* 114.  A data body that is no dict has no .get: AttributeError.           *)
body_result(c, S, now) ==
    IF ~c.isdict THEN [st |-> S, exc |-> "AttributeError", more |-> FALSE]
    ELSE IF c.op = "update_position"
      THEN [st |-> update_position(S, c.ref, now).st, exc |-> "none", more |-> FALSE]
    ELSE IF c.op = "add_execution"
      THEN [st |-> add_execution(S, c.rec, now).st, exc |-> "none", more |-> FALSE]
    ELSE IF c.op = "update_order"
      THEN [st |-> update_order(S, c.rec, now).st, exc |-> "none", more |-> FALSE]
    ELSE IF c.op = "update_market_data"
      THEN LET a == update_market_data_store(S, c.ref, now)
           IN [st |-> a.st, exc |-> "none", more |-> ~a.done]
    ELSE [st |-> S, exc |-> "none", more |-> FALSE]

Body(t) ==
    /\ pc[t] = "body"
    /\ LET res == body_result(call[t], State, clock)
       IN /\ Commit(Collect(res.st, InFlight))
          /\ call' = [call EXCEPT ![t].exc = res.exc]
          /\ Goto(t, IF res.more THEN "body2" ELSE "release")
    /\ snapshot' = IF call[t].op \in SnapshotOps
                   THEN take_snapshot(call[t].op, State) ELSE snapshot
    /\ UNCHANGED <<clock, lastOp, running, redis_client, pubsub, caller, inbox,
                   lock, faults, reads, stopped, since_failed>>

Body2(t) ==
    /\ pc[t] = "body2"
    /\ LET res == update_market_data_recalc(State, call[t].ref, clock)
       IN /\ Commit(Collect(res.st, InFlight))
          /\ call' = [call EXCEPT ![t].exc = res.exc]
    /\ Goto(t, "release")
    /\ UNCHANGED <<clock, lastOp, running, redis_client, pubsub, caller, inbox,
                   lock, snapshot, faults, reads, stopped, since_failed>>

release_lock_keeps(t) == t

release_lock(t) == "free"

Release(t) ==
    /\ pc[t] = "release"
    /\ lock' = release_lock(t)
    /\ Goto(t, IF call[t].exc = "none" THEN call[t].ret ELSE call[t].onexc)
    /\ call' = [call EXCEPT ![t] = NoCall]
    /\ Commit(Collect(State, InFlight \ {call[t].ref}))
    /\ UNCHANGED <<clock, lastOp, running, redis_client, pubsub, caller, inbox,
                   snapshot, faults, reads, stopped, since_failed>>

EngineCall(t) == Acquire(t) \/ Body(t) \/ Body2(t) \/ Release(t)

-----------------------------------------------------------------------------
(* RedisSubscriber: the thread "sub" *)

FlagStepsLossKeepsFlag ==
    [c_flag |-> [value |-> TRUE, next |-> "c_log1"],
     c_fail_flag |-> [value |-> FALSE, next |-> "c_return_false"],
     lost_flag |-> [value |-> TRUE, next |-> "reconnect"]]

(* The statements that only write the connectivity flag *)
FlagSteps ==
    [c_flag |-> [value |-> TRUE, next |-> "c_log1"],
     c_fail_flag |-> [value |-> FALSE, next |-> "c_return_false"],
     lost_flag |-> [value |-> FALSE, next |-> "reconnect"]]

LogStepsErrorEndsLoop ==
    [c_log1 |-> [msg |-> <<"Connected to Redis", "">>, next |-> "c_log2"],
     c_log2 |-> [msg |-> <<"Subscribed to", "">>, next |-> "loop"],
     c_fail_log |-> [msg |-> <<"Failed to connect to Redis", "">>, next |-> "c_fail_flag"],
     lost_log |-> [msg |-> <<"Redis connection lost", "">>, next |-> "lost_flag"],
     err_log |-> [msg |-> <<"Redis subscriber error", "">>, next |-> "loop"],
     h_json_err |-> [msg |-> <<"JSON parse error", "">>, next |-> "loop"],
     h_exc_log |-> [msg |-> <<"Message handling error", "">>, next |-> "done"]]

(* The statements that only call log_update, outside the lock *)
LogSteps ==
    [c_log1 |-> [msg |-> <<"Connected to Redis", "">>, next |-> "c_log2"],
     c_log2 |-> [msg |-> <<"Subscribed to", "">>, next |-> "loop"],
     c_fail_log |-> [msg |-> <<"Failed to connect to Redis", "">>, next |-> "c_fail_flag"],
     lost_log |-> [msg |-> <<"Redis connection lost", "">>, next |-> "lost_flag"],
     err_log |-> [msg |-> <<"Redis subscriber error", "">>, next |-> "loop"],
     h_json_err |-> [msg |-> <<"JSON parse error", "">>, next |-> "loop"],
     h_exc_log |-> [msg |-> <<"Message handling error", "">>, next |-> "loop"]]

SubFrame == UNCHANGED <<lastOp, lock, snapshot, reads, stopped>>

elapse(t, d) == Min(t + d, BackoffDelay)

(* run, line 240 *)
SubRun ==
    /\ pc["sub"] = "run"
    /\ running' = TRUE
    /\ caller' = "run241"
    /\ Goto("sub", "connect")
    /\ UNCHANGED <<engineVars, clock, redis_client, pubsub, inbox, call, faults>>
    /\ UNCHANGED since_failed
    /\ SubFrame

(* connect, lines 217-228: the client, the ping, the pubsub, the subscribe  *)
SubConnect(maxFaults) ==
    /\ pc["sub"] = "connect"
    /\ \/ /\ redis_client' = "open"
          /\ pubsub' = "open"
          /\ Goto("sub", "c_flag")
          /\ UNCHANGED <<faults, since_failed>>
       \/ /\ faults < maxFaults
          /\ faults' = faults + 1
          /\ since_failed' = 0
          /\ \/ redis_client' = "unconnected" /\ UNCHANGED pubsub
             \/ redis_client' = "open" /\ pubsub' = "unsubscribed"
          /\ Goto("sub", "c_fail_log")
    /\ UNCHANGED <<engineVars, clock, running, caller, inbox, call>>
    /\ SubFrame

set_connected_resets(S, value) ==
    [S EXCEPT !.connected = value, !.executions = IF value THEN <<>> ELSE @]

set_connected(S, value) == [S EXCEPT !.connected = value]

(* connect lines 230 and 236, run line 251; run line 252 calls connect *)
SubFlag ==
    /\ pc["sub"] \in DOMAIN FlagSteps
    /\ Commit(set_connected(State, FlagSteps[pc["sub"]].value))
    /\ LET next == FlagSteps[pc["sub"]].next
       IN IF next = "reconnect"
          THEN Goto("sub", "connect") /\ caller' = "run252"
          ELSE Goto("sub", next) /\ UNCHANGED caller
    /\ UNCHANGED <<clock, running, redis_client, pubsub, inbox, call, faults>>
    /\ UNCHANGED since_failed
    /\ SubFrame

(* connect lines 231, 232, 235; run lines 250, 256; handle_message 291, 293 *)
SubLog ==
    /\ pc["sub"] \in DOMAIN LogSteps
    /\ Commit(log_update(State, LogSteps[pc["sub"]].msg))
    /\ Goto("sub", LogSteps[pc["sub"]].next)
    /\ UNCHANGED <<clock, running, redis_client, pubsub, caller, inbox, call, faults>>
    /\ UNCHANGED since_failed
    /\ SubFrame

after_failed_connect_no_backoff(from) == IF from = "run241" THEN "done" ELSE "loop"

after_failed_connect(from) == IF from = "run241" THEN "done" ELSE "sleep"

(* connect returned False: run line 242 returns, run line 254 sleeps *)
SubConnectFailed ==
    /\ pc["sub"] = "c_return_false"
    /\ Goto("sub", after_failed_connect(caller))
    /\ UNCHANGED <<engineVars, clock, running, redis_client, pubsub, caller,
                   inbox, call, faults>>
    /\ UNCHANGED since_failed
    /\ SubFrame

(* run line 254: time.sleep(5) returns *)
SubSleep ==
    /\ pc["sub"] = "sleep"
    /\ since_failed' = elapse(since_failed, BackoffDelay)
    /\ Goto("sub", "loop")
    /\ UNCHANGED <<engineVars, clock, running, redis_client, pubsub, caller,
                   inbox, call, faults>>
    /\ SubFrame

(* run line 244: while self.running *)
SubLoop ==
    /\ pc["sub"] = "loop"
    /\ Goto("sub", IF running THEN "poll" ELSE "done")
    /\ UNCHANGED <<engineVars, clock, running, redis_client, pubsub, caller,
                   inbox, call, faults>>
    /\ UNCHANGED since_failed
    /\ SubFrame

(* run lines 246-247: get_message(timeout=1.0) returns nothing, returns a   *)
(* message, raises redis.ConnectionError or raises something else (on a     *)
(* pubsub that stop() closed: nothing, or an error of the library)          *)
SubPoll(msgs, maxMsgs, maxFaults) ==
    /\ pc["sub"] = "poll"
    /\ \/ /\ Goto("sub", "loop")
          /\ inbox' = NoMessage
          /\ UNCHANGED <<clock, faults>>
       \/ /\ pubsub = "open"
          /\ clock < maxMsgs
          /\ \E m \in msgs : inbox' = m
          /\ clock' = clock + 1
          /\ Goto("sub", "handle")
          /\ UNCHANGED faults
       \/ /\ pubsub # "closed"
          /\ faults < maxFaults
          /\ faults' = faults + 1
          /\ Goto("sub", "lost_log")
          /\ UNCHANGED <<inbox, clock>>
       \/ /\ faults < maxFaults
          /\ faults' = faults + 1
          /\ Goto("sub", "err_log")
          /\ UNCHANGED <<inbox, clock>>
    /\ UNCHANGED <<engineVars, running, redis_client, pubsub, caller, call>>
    /\ UNCHANGED since_failed
    /\ SubFrame

(* handle_message lines 259-288, up to the call of the state's method; the   *)
(* local variable message of run keeps the message until the next poll      *)
SubHandle ==
    /\ pc["sub"] = "handle"
    /\ LET d == decode(inbox.data)
           op == IF d.err THEN "none" ELSE route(inbox.channel, d.val)
           msg_data == IF d.err THEN NoBody ELSE msg_data_of(d.val)
           byref == op \in {"update_position", "update_market_data"} /\ msg_data.tag = "dict"
       IN /\ Goto("sub", IF d.err THEN "h_json_err"
                         ELSE IF op = "none" THEN "loop" ELSE "acquire")
          /\ call' = [call EXCEPT !["sub"] =
                        IF d.err \/ op = "none" THEN NoCall
                        ELSE [op |-> op,
                              ref |-> IF byref THEN NewRef(heap) ELSE 0,
                              rec |-> msg_data.rec,
                              isdict |-> msg_data.tag = "dict",
                              exc |-> "none", ret |-> "loop", onexc |-> "h_exc_log"]]
          /\ heap' = IF ~d.err /\ byref THEN (NewRef(heap) :> msg_data.rec) @@ heap ELSE heap
    /\ UNCHANGED <<positions, executions, orders, market_data, portfolio_summary,
                   last_update, connected, update_log, pendingDerived,
                   clock, running, redis_client, pubsub, caller, faults, inbox>>
    /\ UNCHANGED since_failed
    /\ SubFrame

(* The subscriber while the transport works *)
SubCore(msgs, maxMsgs, maxFaults) ==
    \/ SubRun \/ SubConnect(maxFaults) \/ SubFlag \/ SubLog \/ SubLoop
    \/ SubPoll(msgs, maxMsgs, maxFaults) \/ SubHandle
    \/ EngineCall("sub")

(* and what it does after a failed connect *)
SubStep(msgs, maxMsgs, maxFaults) ==
    \/ SubCore(msgs, maxMsgs, maxFaults)
    \/ SubConnectFailed
    \/ SubSleep

(* module level, line 305: subscriber.start() *)
Start ==
    /\ pc["main"] = "m_start"
    /\ pc["sub"] = "unstarted"
    /\ pc' = [pc EXCEPT !["main"] = "m_boot", !["sub"] = "run"]
    /\ UNCHANGED <<engineVars, clock, lastOp, running, redis_client, pubsub,
                   caller, inbox, call, lock, snapshot, faults, reads, stopped,
                   since_failed>>

close(handle) == IF handle = "none" THEN "none" ELSE "closed"

StopClearsFlag ==
    /\ running' = FALSE
    /\ pubsub' = close(pubsub)
    /\ redis_client' = close(redis_client)
    /\ stopped' = TRUE
    /\ connected' = FALSE
    /\ UNCHANGED <<positions, executions, orders, market_data, portfolio_summary,
                   last_update, update_log, heap, pendingDerived, clock, lastOp,
                   pc, caller, inbox, call, lock, snapshot, faults, reads,
                   since_failed>>

(* RedisSubscriber.stop, lines 295-300 *)
Stop ==
    /\ running' = FALSE
    /\ pubsub' = close(pubsub)
    /\ redis_client' = close(redis_client)
    /\ stopped' = TRUE
    /\ UNCHANGED <<engineVars, clock, lastOp, pc, caller, inbox, call, lock,
                   snapshot, faults, reads, since_failed>>

SubNext == SubStep(Messages, MaxMsgs, MaxFaults)

NextSub == Start \/ SubNext \/ Stop

SpecSub == Init /\ [][NextSub]_vars

FairSpecSub == SpecSub /\ WF_vars(SubNext)

-----------------------------------------------------------------------------
(* The main thread: subscriber.start(), then fetch_initial_data(), then the *)
(* server whose callbacks are the readers.  The FIX client answers all four *)
(* requests (one position, no executions, no orders, one quote), or the     *)
(* first request fails to connect.                                          *)

BootPosition ==
    [Pos("AAPL", Num(100), Num(150000)) EXCEPT !.currentPrice = Num(150000),
                                                !.marketValue = Num(15000000),
                                                !.unrealizedPnl = Num(0),
                                                !.totalCost = Num(15000000)]

BootQuote == Quote("AAPL", Num(155000))

MainCalls ==
    [m_pos |-> [op |-> "update_position", rec |-> BootPosition,
                ret |-> "m_log_pos", onexc |-> "m_log_failed"],
     m_quote |-> [op |-> "update_market_data", rec |-> BootQuote,
                  ret |-> "m_log_md", onexc |-> "m_log_mderr"]]

MainLogSteps ==
    [m_log_pos |-> [msg |-> <<"Loaded positions from API", "">>, next |-> "m_log_exec"],
     m_log_exec |-> [msg |-> <<"Loaded executions from API", "">>, next |-> "m_log_orders"],
     m_log_orders |-> [msg |-> <<"Loaded orders from API", "">>, next |-> "m_quote"],
     m_log_md |-> [msg |-> <<"Loaded market data", "">>, next |-> "serve"],
     m_log_mderr |-> [msg |-> <<"Could not fetch market data", "">>, next |-> "serve"],
     m_log_failed |-> [msg |-> <<"Failed to fetch initial data", "">>, next |-> "serve"],
     m_log_unreachable |-> [msg |-> <<"Could not connect to FIX Client", "">>, next |-> "serve"]]

MainFrame == UNCHANGED <<clock, lastOp, running, redis_client, pubsub, caller,
                         inbox, lock, snapshot, faults, reads, stopped,
                         since_failed>>

(* fetch_initial_data line 312: the first request *)
MainFetch ==
    /\ pc["main"] = "m_boot"
    /\ \/ Goto("main", "m_set_summary")
       \/ Goto("main", "m_log_unreachable")
    /\ UNCHANGED <<engineVars, call>>
    /\ MainFrame

(* fetch_initial_data line 315: state.portfolio_summary = summary *)
MainSetSummary ==
    /\ pc["main"] = "m_set_summary"
    /\ LET r == NewRef(heap)
       IN /\ heap' = (r :> BootPosition) @@ heap
          /\ portfolio_summary' = <<r>>
    /\ Goto("main", "m_pos")
    /\ UNCHANGED <<positions, executions, orders, market_data, last_update,
                   connected, update_log, pendingDerived, call>>
    /\ MainFrame

(* fetch_initial_data lines 317, 325, 333, 343: the calls of the state's methods *)
MainCall ==
    /\ pc["main"] \in DOMAIN MainCalls
    /\ LET c == MainCalls[pc["main"]]
           r == IF c.op = "update_position" THEN portfolio_summary[1]
                ELSE IF c.op = "update_market_data" THEN NewRef(heap) ELSE 0
       IN /\ call' = [call EXCEPT !["main"] =
                        [op |-> c.op, ref |-> r, rec |-> c.rec, isdict |-> TRUE,
                         exc |-> "none", ret |-> c.ret, onexc |-> c.onexc]]
          /\ heap' = IF c.op = "update_market_data" THEN (r :> c.rec) @@ heap ELSE heap
    /\ Goto("main", "acquire")
    /\ UNCHANGED <<positions, executions, orders, market_data, portfolio_summary,
                   last_update, connected, update_log, pendingDerived>>
    /\ MainFrame

(* fetch_initial_data lines 318, 326, 334, 344, 346, 349, 351 *)
MainLog ==
    /\ pc["main"] \in DOMAIN MainLogSteps
    /\ Commit(log_update(State, MainLogSteps[pc["main"]].msg))
    /\ Goto("main", MainLogSteps[pc["main"]].next)
    /\ UNCHANGED call
    /\ MainFrame

MainStep == MainFetch \/ MainSetSummary \/ MainCall \/ MainLog \/ EngineCall("main")

-----------------------------------------------------------------------------
(* A reader: one Dash callback *)

MaxReads == 1

Callbacks ==
    [update_summary |-> "get_positions_df",
     update_positions_table |-> "get_positions_df",
     update_executions_table |-> "get_executions_df",
     update_orders_table |-> "get_orders_df",
     update_marketdata_table |-> "get_market_data_df",
     update_debug_log |-> "get_update_log"]

ReaderFrame == UNCHANGED <<engineVars, clock, lastOp, running, redis_client,
                           pubsub, caller, inbox, lock, snapshot, faults, stopped,
                           since_failed>>

(* the interval fires a callback; update_summary reads two fields first *)
ReaderStart ==
    /\ pc["main"] = "serve"
    /\ pc["ui"] = "idle"
    /\ reads < MaxReads
    /\ reads' = reads + 1
    /\ \E cb \in DOMAIN Callbacks :
          /\ call' = [call EXCEPT !["ui"] =
                        [NoCall EXCEPT !.op = Callbacks[cb], !.ret = "idle", !.onexc = "idle"]]
          /\ Goto("ui", IF cb = "update_summary" THEN "u_connected" ELSE "acquire")
    /\ ReaderFrame

UnlockedReads ==
    [u_connected |-> [field |-> "connected", next |-> "u_last_update"],
     u_last_update |-> [field |-> "last_update", next |-> "acquire"]]

(* update_summary lines 496 and 503 *)
ReaderRead ==
    /\ pc["ui"] \in DOMAIN UnlockedReads
    /\ Goto("ui", UnlockedReads[pc["ui"]].next)
    /\ UNCHANGED <<call, reads>>
    /\ ReaderFrame

ReaderStep == ReaderStart \/ ReaderRead \/ EngineCall("ui")

SysMessages ==
    { Message(REDIS_CHANNELS.positions, "POSITION_UPDATE",
              DictBody(Pos("AAPL", NumStr(100), Num(150000)))),
      Message(REDIS_CHANNELS.marketdata, "MARKET_DATA",
              DictBody(Quote("AAPL", Num(160000)))),
      Message(REDIS_CHANNELS.marketdata, "MARKET_DATA",
              DictBody(Quote("AAPL", BadStr))) }

MaxSysMsgs == 2

(* The three threads over a transport that does not fail *)
NextSys == Start \/ MainStep \/ SubCore(SysMessages, MaxSysMsgs, 0) \/ ReaderStep

SpecSys == Init /\ [][NextSys]_vars

-----------------------------------------------------------------------------
(* What the claims are stated with *)

Symbols == {"AAPL", "MSFT"}

PositionOf(s) == IF s \in DOMAIN positions THEN heap[positions[s]] ELSE EmptyDict

QuoteOf(s) == IF s \in DOMAIN market_data THEN heap[market_data[s]] ELSE EmptyDict

QuoteAccepted(q) == q.symbol # NoSymbol /\ Floatable(q.price)

NumericNonZero(x) == x.k = "num" /\ x.v # 0

CostBasis(pos) == IF Floatable(pos.avgCost) THEN pos.avgCost.v ELSE 0

(* The formula of the specification, section 4.2 *)
Derived(q, c, p) ==
    LET mv == p * Abs(q)
        tc == c * Abs(q)
    IN [marketValue |-> Num(round2(mv)),
        totalCost |-> Num(round2(tc)),
        unrealizedPnl |-> Num(round2(IF q > 0 THEN mv - tc ELSE tc - mv))]

HasDerived(pos, d) ==
    /\ pos.marketValue = d.marketValue
    /\ pos.totalCost = d.totalCost
    /\ pos.unrealizedPnl = d.unrealizedPnl

Consistent(pos) ==
    /\ IsNumber(pos.currentPrice)
    /\ HasDerived(pos, Derived(pos.quantity.v, CostBasis(pos), pos.currentPrice.v))

LogGrewByOne ==
    /\ Len(update_log') = Min(Len(update_log) + 1, LogMaxLen)
    /\ \A i \in 2..Len(update_log') : update_log'[i] = update_log[i - 1]

-----------------------------------------------------------------------------
(* C1: after a successful ApplyQuote(price p) on a symbol whose stored      *)
(* Position has a numeric quantity q # 0 and average cost c, the Position   *)
(* holds marketValue = p*|q|, totalCost = c*|q| and unrealizedPnl =         *)
(* marketValue - totalCost (long) or totalCost - marketValue (short), each  *)
(* rounded to 2 decimals, from the latest price, quantity and avgCost.      *)
C1_QuoteRepricesPosition ==
    (/\ lastOp.name = "ApplyQuote"
     /\ QuoteAccepted(lastOp.arg)
     /\ NumericNonZero(PositionOf(lastOp.arg.symbol).quantity))
    => LET pos == PositionOf(lastOp.arg.symbol)
       IN /\ pos.currentPrice = Num(lastOp.arg.price.v)
          /\ HasDerived(pos, Derived(pos.quantity.v, CostBasis(pos), lastOp.arg.price.v))

C1_Witness ==
    /\ lastOp.name = "ApplyQuote"
    /\ lastOp.arg.price = NumStr(190000)
    /\ PositionOf("AAPL").quantity = Num(-50)
    /\ PositionOf("AAPL").unrealizedPnl = Num(500000)
    /\ PositionOf("AAPL").totalCost = Num(10000000)

(* C2: ApplyQuote with a missing or non-numeric price leaves the stored     *)
(* Quote and Position of the symbol, and everything else in the aggregator  *)
(* state including last_update, as they were; only one entry is added to    *)
(* the diagnostic log.                                                      *)
C2_BadPriceChangesOnlyLog ==
    [][(lastOp'.name = "ApplyQuote" /\ ~Floatable(lastOp'.arg.price))
       => /\ UNCHANGED <<positions, executions, orders, market_data,
                         portfolio_summary, last_update, connected, heap>>
          /\ LogGrewByOne]_vars

C2_Witness ==
    /\ lastOp.name = "ApplyQuote"
    /\ lastOp.arg.price = BadStr
    /\ QuoteOf("AAPL").price = Num(160000)
    /\ PositionOf("AAPL").currentPrice = Num(160000)
    /\ update_log[1] = <<"Invalid price", "AAPL">>

(* C3: ApplyQuote with a valid numeric price on a symbol whose stored       *)
(* Position carries a non-numeric quantity (a string or a null) is          *)
(* rejected: the stored Quote, the Position's currentPrice and its derived  *)
(* fields are the same as before the call.                                  *)
C3_NonNumericQuantityRejected ==
    [][\A s \in Symbols :
         (/\ lastOp'.name = "ApplyQuote"
          /\ QuoteAccepted(lastOp'.arg)
          /\ lastOp'.arg.symbol = s
          /\ PositionOf(s).quantity.k \in {"numstr", "str", "null"})
         => /\ QuoteOf(s)' = QuoteOf(s)
            /\ PositionOf(s)' = PositionOf(s)]_vars

(* C4: every stored Position with nonzero quantity has marketValue,         *)
(* unrealizedPnl and totalCost equal to the values the formula derives from *)
(* its own stored (quantity, avgCost, currentPrice).                        *)
C4_DerivedAlwaysConsistent ==
    \A s \in DOMAIN positions :
        NumericNonZero(PositionOf(s).quantity) => Consistent(PositionOf(s))

(* C4 as amended: an operation other than an ApplyPosition of the symbol    *)
(* that changes a stored Position with numeric nonzero quantity leaves its  *)
(* derived fields equal to the formula on its own stored triple; only       *)
(* ApplyPosition stores derived fields as the caller gave them.             *)
C4_DerivedSetOnlyByFormula ==
    [][\A s \in Symbols :
         (/\ s \in DOMAIN positions'
          /\ NumericNonZero(PositionOf(s)'.quantity)
          /\ PositionOf(s)' # PositionOf(s)
          /\ ~(lastOp'.name = "ApplyPosition" /\ lastOp'.arg.symbol = s))
         => Consistent(PositionOf(s)')]_vars

C4_Witness ==
    /\ lastOp.name = "ApplyQuote"
    /\ PositionOf("AAPL").quantity = Num(100)
    /\ PositionOf("AAPL").currentPrice = Num(160000)
    /\ PositionOf("AAPL").marketValue = Num(16000000)
    /\ PositionOf("AAPL").unrealizedPnl = Num(1000000)
    /\ PositionOf("AAPL").totalCost = Num(15000000)

(* C5: the execution sequence never holds more than 100 entries; every      *)
(* ApplyExecution puts the new record at the head, and a full sequence      *)
(* evicts the oldest-inserted entry: after n insertions it holds the last   *)
(* min(n, 100) records in reverse insertion order.                          *)
C5_ExecutionsBoundedNewestFirst ==
    /\ Len(executions) = Min(clock, 100)
    /\ \A i \in 1..Len(executions) : executions[i] = ExecRecord(clock - i + 1)

C5_Witness ==
    /\ clock = 101
    /\ Len(executions) = 100
    /\ executions[1] = ExecRecord(101)
    /\ executions[100] = ExecRecord(2)
    /\ \A i \in 1..Len(executions) : executions[i] # ExecRecord(1)

(* C6: a snapshot returned by a Snapshot* operation is a frozen copy, which *)
(* no later step of any thread changes, and a snapshot never shows a        *)
(* Position whose price a quote updated while its derived fields were not   *)
(* recomputed.                                                              *)
C6_SnapshotFrozenNeverTorn ==
    [][/\ (snapshot.kind # "none" /\ pc["ui"] # "body") => snapshot' = snapshot
       /\ snapshot'.torn = {}]_vars

(* The state fields the next statement of thread t touches, and whether it  *)
(* writes one of them                                                       *)
AccessOf(t) ==
    IF pc[t] \in DOMAIN FlagSteps THEN [fields |-> {"connected"}, write |-> TRUE]
    ELSE IF pc[t] \in (DOMAIN LogSteps) \cup (DOMAIN MainLogSteps)
      THEN [fields |-> {"update_log"}, write |-> TRUE]
    ELSE IF pc[t] = "m_set_summary" THEN [fields |-> {"portfolio_summary"}, write |-> TRUE]
    ELSE IF pc[t] \in DOMAIN UnlockedReads
      THEN [fields |-> {UnlockedReads[pc[t]].field}, write |-> FALSE]
    ELSE IF pc[t] \in {"body", "body2"}
      THEN [fields |-> {"positions", "executions", "orders", "market_data",
                        "last_update", "update_log"},
            write |-> call[t].op \notin SnapshotOps]
    ELSE [fields |-> {}, write |-> FALSE]

(* C7: every read and write of aggregator state by the ingest thread, the   *)
(* bootstrap loader or a reader happens while the state lock is held; no    *)
(* two threads access a state field at the same time with one writing.      *)
C7_StateAccessedUnderLock ==
    /\ \A t \in Threads : AccessOf(t).fields # {} => lock = t
    /\ \A t, u \in Threads :
          (t # u /\ (AccessOf(t).write \/ AccessOf(u).write))
          => AccessOf(t).fields \cap AccessOf(u).fields = {}

(* C8: the Subscription Manager has no terminal state short of an external  *)
(* Stop: after a failed connect on Start it stays in the connect/retry      *)
(* cycle, so its thread ends only after Stop was invoked.                   *)
C8_NoTerminalStateBeforeStop ==
    pc["sub"] = "done" => stopped

InLog(msg) == \E i \in 1..Len(update_log) : update_log[i][1] = msg

Reconnected == connected /\ caller = "run252" /\ InLog("Redis connection lost")

Applied(m) ==
    LET rec == m.data.inner.body.rec
    IN IF m.channel = REDIS_CHANNELS.positions THEN PositionOf(rec.symbol).quantity = rec.quantity
       ELSE IF m.channel = REDIS_CHANNELS.executions
         THEN Len(executions) > 0 /\ executions[1] = rec
       ELSE IF m.channel = REDIS_CHANNELS.orders
         THEN rec.clOrdId \in DOMAIN orders /\ orders[rec.clOrdId] = rec
       ELSE QuoteOf(rec.symbol).price = Num(rec.price.v)

RoutedMessages ==
    {m \in Messages : ~decode(m.data).err /\ route(m.channel, decode(m.data).val) # "none"}

(* C9: when the connection is lost while Subscribed, the connectivity flag  *)
(* is false before any reconnect attempt is made, a reconnect attempt       *)
(* follows, a reconnect attempt that succeeds sets the flag to true again,  *)
(* and a message received after that is applied to the engine.              *)
C9_LossThenReconnect ==
    /\ []((pc["sub"] = "connect" /\ caller = "run252") => ~connected)
    /\ [][(pc["sub"] = "c_log2" /\ pc'["sub"] = "loop") => connected']_vars
    /\ (pc["sub"] = "lost_log") ~> (pc["sub"] = "connect" /\ caller = "run252")
    /\ \A m \in RoutedMessages :
          (Reconnected /\ pc["sub"] = "handle" /\ inbox = m) ~> Applied(m)

C9_Witness ==
    /\ Reconnected
    /\ pc["sub"] = "loop"
    /\ Len(update_log) >= 4
    /\ update_log[1] = <<"Execution", "AAPL">>
    /\ update_log[2] = <<"Subscribed to", "">>
    /\ update_log[4] = <<"Redis connection lost", "">>
    /\ Len(executions) = 1

ConnectionPcs ==
    {"lost_log", "lost_flag", "connect", "c_flag", "c_log1", "c_log2",
     "c_fail_log", "c_fail_flag", "c_return_false", "sleep"}

(* C10: connection loss, failed reconnect attempts and successful           *)
(* reconnects leave the accumulated positions, executions, orders and       *)
(* quotes unchanged: nothing is removed, altered or applied a second time.  *)
C10_ReconnectKeepsState ==
    [][(pc["sub"] \in ConnectionPcs /\ pc'["sub"] # pc["sub"])
       => UNCHANGED <<positions, executions, orders, market_data, heap>>]_vars

C10_Witness ==
    /\ Reconnected
    /\ pc["sub"] = "loop"
    /\ update_log[1] = <<"Subscribed to", "">>
    /\ InLog("Failed to connect to Redis")
    /\ Len(executions) = 1
    /\ "ORD1" \in DOMAIN orders

(* C11: after a connection attempt of the manager has failed, the manager    *)
(* starts no connection attempt before the backoff delay of 5 time units    *)
(* has passed, so two consecutive failed attempts are at least that far     *)
(* apart.                                                                   *)
C11_BackoffBetweenAttempts ==
    pc["sub"] = "connect" => since_failed >= BackoffDelay

C11_Witness ==
    /\ pc["sub"] = "connect"
    /\ caller = "run252"
    /\ Len(update_log) >= 2
    /\ update_log[1] = <<"Redis connection lost", "">>
    /\ update_log[2] = <<"Failed to connect to Redis", "">>
    /\ since_failed = BackoffDelay
    /\ faults = 3

(* C12: once Stop has been invoked, the next evaluation of the loop         *)
(* condition ends the receive loop, so no message is polled or applied      *)
(* after it, whatever the order of Stop, Start and the thread's steps.      *)
C12_StopEndsLoopAtNextPoll ==
    [][(stopped /\ pc["sub"] = "loop" /\ pc'["sub"] # "loop")
       => pc'["sub"] = "done"]_vars

(* C13: when Stop has been invoked and the receive loop has exited, neither *)
(* the client nor the pubsub of the manager is an open transport session.   *)
C13_NoOpenSessionAfterStop ==
    (stopped /\ pc["sub"] = "done")
    => (redis_client # "open" /\ pubsub \notin {"open", "unsubscribed"})

BootstrapDone == pc["main"] = "serve"

(* C14: no live event is applied to the engine before the bootstrap loader  *)
(* has finished, and a bootstrap record never replaces a Position that a    *)
(* live event wrote.                                                        *)
C14_BootstrapBeforeStreaming ==
    /\ [](pc["sub"] \in {"body", "body2"} => BootstrapDone)
    /\ [][(/\ pc["main"] = "body"
           /\ call["main"].op = "update_position"
           /\ pc'["main"] # "body")
          => call["main"].rec.symbol \notin DOMAIN positions]_vars

-----------------------------------------------------------------------------
(* The subscriber over a transport that does not fail, fed with messages of *)
(* every encoding depth on every channel                                    *)

Channels == {REDIS_CHANNELS.positions, REDIS_CHANNELS.executions,
             REDIS_CHANNELS.orders, REDIS_CHANNELS.marketdata}

recognized_type(channel) ==
    IF channel = REDIS_CHANNELS.positions THEN "POSITION_UPDATE"
    ELSE IF channel = REDIS_CHANNELS.executions THEN "EXECUTION"
    ELSE IF channel = REDIS_CHANNELS.marketdata THEN "MARKET_DATA"
    ELSE ""

ValidBody(channel) ==
    IF channel = REDIS_CHANNELS.positions THEN DictBody(Pos("MSFT", Num(10), Absent))
    ELSE IF channel = REDIS_CHANNELS.executions THEN DictBody(ExecRecord(7))
    ELSE IF channel = REDIS_CHANNELS.orders THEN DictBody(Order("ORD1", Num(1)))
    ELSE DictBody(Quote("MSFT", Num(1004)))

ValidMessage(channel) == Message(channel, recognized_type(channel), ValidBody(channel))

(* the text of a JSON string whose content is the text t *)
Encoded(m) == [m EXCEPT !.data = Text(@)]

ValidMessages == {ValidMessage(c) : c \in Channels}

DoubleEncodedMessages == {Encoded(ValidMessage(c)) : c \in Channels}

TripleEncodedMessages == {Encoded(Encoded(ValidMessage(c))) : c \in Channels}

BrokenInnerMessages == {[channel |-> c, data |-> Text(Garbage)] : c \in Channels}

WrongTypeMessages ==
    { Message(REDIS_CHANNELS.positions, "EXECUTION", ValidBody(REDIS_CHANNELS.positions)),
      Message(REDIS_CHANNELS.positions, "", ValidBody(REDIS_CHANNELS.positions)),
      Message(REDIS_CHANNELS.executions, "", ValidBody(REDIS_CHANNELS.executions)),
      Message(REDIS_CHANNELS.executions, "MARKET_DATA", ValidBody(REDIS_CHANNELS.marketdata)),
      Message(REDIS_CHANNELS.marketdata, "POSITION_UPDATE", ValidBody(REDIS_CHANNELS.positions)),
      Message(REDIS_CHANNELS.marketdata, "", ValidBody(REDIS_CHANNELS.marketdata)) }

FailingMessages ==
    { Message(REDIS_CHANNELS.positions, "POSITION_UPDATE", OtherBody),
      Message(REDIS_CHANNELS.marketdata, "MARKET_DATA", OtherBody) }

OrdersMessages ==
    { Message(REDIS_CHANNELS.orders, "EXECUTION", DictBody(Order("ORD2", Num(1)))),
      Message(REDIS_CHANNELS.orders, "ORDER_UPDATE", DictBody(EmptyDict)),
      Message(REDIS_CHANNELS.orders, "ORDER_UPDATE", NoBody),
      Message(REDIS_CHANNELS.orders, "ORDER_UPDATE", OtherBody),
      [channel |-> REDIS_CHANNELS.orders, data |-> Text(JsonOther)] }

MsgMessages ==
    ValidMessages \cup DoubleEncodedMessages \cup TripleEncodedMessages
    \cup BrokenInnerMessages \cup WrongTypeMessages \cup FailingMessages
    \cup SysMessages \cup OrdersMessages

MaxMsgMsgs == 3

NextMsg == Start \/ SubCore(MsgMessages, MaxMsgMsgs, 0)

SpecMsg == Init /\ [][NextMsg]_vars

FairSpecMsg == SpecMsg /\ WF_vars(NextMsg)

-----------------------------------------------------------------------------
(* What the claims about messages are stated with *)

DataVars == <<positions, executions, orders, market_data, heap>>

Polled(m) == m.channel # "none"

(* the text decodes, twice, to a string *)
TripleEncoded(m) ==
    /\ Polled(m) /\ m.data.wf
    /\ m.data.inner.tag = "str" /\ m.data.inner.wf
    /\ m.data.inner.inner.tag = "str"

(* the text decodes to a string that does not decode *)
SecondLayerFails(m) ==
    /\ Polled(m) /\ m.data.wf
    /\ m.data.inner.tag = "str" /\ ~m.data.inner.wf

HasEnvelope(m) ==
    /\ Polled(m) /\ m.data.wf
    /\ \/ m.data.inner.tag = "dict"
       \/ (m.data.inner.tag = "str" /\ m.data.inner.wf /\ m.data.inner.inner.tag = "dict")

EnvelopeOf(m) == IF m.data.inner.tag = "dict" THEN m.data.inner ELSE m.data.inner.inner

TypedChannels == {"positions:updates", "executions:updates", "marketdata:updates"}

RecognizedType ==
    [c \in TypedChannels |->
        IF c = "positions:updates" THEN "POSITION_UPDATE"
        ELSE IF c = "executions:updates" THEN "EXECUTION" ELSE "MARKET_DATA"]

OperationOf ==
    [c \in Channels |->
        IF c = "positions:updates" THEN "update_position"
        ELSE IF c = "executions:updates" THEN "add_execution"
        ELSE IF c = "orders:updates" THEN "update_order" ELSE "update_market_data"]

WrongType(m) ==
    /\ HasEnvelope(m)
    /\ m.channel \in TypedChannels
    /\ EnvelopeOf(m).type # RecognizedType[m.channel]

HandlingPcs == {"handle", "acquire", "body", "body2", "release", "h_json_err", "h_exc_log"}

FailureLogged ==
    /\ Len(update_log) > 0
    /\ update_log[1][1] \in {"JSON parse error", "Message handling error"}

(* C15: a message that is still a string after two layers of decoding is    *)
(* treated as malformed on every channel: handling it changes no Position,  *)
(* Execution, Order or Quote and goes on to write a decode error to the     *)
(* diagnostic log.                                                          *)
C15_TripleEncodedLogged ==
    [][(pc["sub"] = "handle" /\ TripleEncoded(inbox) /\ pc'["sub"] # "handle")
       => (pc'["sub"] = "h_json_err" /\ UNCHANGED DataVars)]_vars

(* C16: a message whose first decoding layer yields a string that does not  *)
(* decode is dropped on every channel: positions, executions, orders and    *)
(* quotes are unchanged and exactly one entry, the parse error, is added to *)
(* the diagnostic log before the loop goes on.                              *)
C16_BrokenInnerDroppedWithOneLog ==
    /\ [][(pc["sub"] = "handle" /\ SecondLayerFails(inbox) /\ pc'["sub"] # "handle")
          => (pc'["sub"] = "h_json_err" /\ UNCHANGED <<DataVars, update_log>>)]_vars
    /\ [][(pc["sub"] = "h_json_err" /\ pc'["sub"] # "h_json_err")
          => /\ pc'["sub"] = "loop"
             /\ LogGrewByOne
             /\ update_log'[1] = <<"JSON parse error", "">>
             /\ UNCHANGED DataVars]_vars

C16_Witness ==
    /\ pc["sub"] = "loop"
    /\ SecondLayerFails(inbox)
    /\ inbox.channel = "executions:updates"
    /\ clock = 2
    /\ Len(update_log) = 4
    /\ update_log[1] = <<"JSON parse error", "">>
    /\ update_log[2] = <<"Execution", "AAPL">>
    /\ Len(executions) = 1

(* C17: a well-formed message on the positions, executions or marketdata    *)
(* channel whose type is absent or not the one recognized for the channel   *)
(* is dropped silently, the whole aggregator state (log and last_update     *)
(* included) unchanged; and the engine operation a message invokes is the   *)
(* one of its own channel.                                                  *)
C17_RoutingMissSilent ==
    /\ [][(pc["sub"] = "handle" /\ WrongType(inbox) /\ pc'["sub"] # "handle")
          => (pc'["sub"] = "loop" /\ UNCHANGED engineVars)]_vars
    /\ [][(pc["sub"] = "handle" /\ pc'["sub"] = "acquire")
          => call'["sub"].op = OperationOf[inbox.channel]]_vars

C17_Witness ==
    /\ pc["sub"] = "loop"
    /\ WrongType(inbox)
    /\ inbox.channel = "executions:updates"
    /\ EnvelopeOf(inbox).type = "MARKET_DATA"
    /\ clock = 2
    /\ Len(update_log) = 3
    /\ update_log[1] = <<"Position updated", "MSFT">>
    /\ last_update = Time(1)
    /\ executions = <<>>
    /\ market_data = EmptyMap

(* C18: a decode failure or an apply failure on a message does not end the  *)
(* receive loop and changes neither the sessions nor the connectivity flag; *)
(* the loop goes on and a valid message received next is applied.           *)
C18_MessageFailureNotFatal ==
    /\ [][(pc["sub"] \in HandlingPcs)
          => (pc'["sub"] # "done" /\ UNCHANGED <<connected, running, redis_client, pubsub>>)]_vars
    /\ [][(pc["sub"] \in {"h_json_err", "h_exc_log"} /\ pc'["sub"] # pc["sub"])
          => pc'["sub"] = "loop"]_vars
    /\ \A m \in ValidMessages :
          (FailureLogged /\ pc["sub"] = "handle" /\ inbox = m) ~> (pc["sub"] = "loop" /\ Applied(m))

C18_Witness ==
    /\ pc["sub"] = "loop"
    /\ connected /\ running /\ pubsub = "open"
    /\ clock = 3
    /\ Len(update_log) = 5
    /\ update_log[1] = <<"Order", "ORD1">>
    /\ update_log[2] = <<"Message handling error", "">>
    /\ update_log[3] = <<"Position updated", "AAPL">>
    /\ "ORD1" \in DOMAIN orders

-----------------------------------------------------------------------------
Dropped(op) ==
    \/ op.name = "ApplyPosition" /\ op.arg.symbol = NoSymbol
    \/ op.name = "ApplyOrder" /\ op.arg.clOrdId = NoSymbol
    \/ op.name = "ApplyQuote" /\ (op.arg.symbol = NoSymbol \/ ~Floatable(op.arg.price))

(* C19: an update dropped because a required field is missing or invalid    *)
(* (ApplyPosition without symbol, ApplyOrder without client order id,       *)
(* ApplyQuote without symbol or with a missing or non-numeric price) leaves *)
(* positions, executions, orders and quotes unchanged and adds an entry to  *)
(* the diagnostic log.                                                      *)
C19_DroppedUpdateLogged ==
    [][Dropped(lastOp') => (UNCHANGED DataVars /\ LogGrewByOne)]_vars

(* C20: after an ApplyOrder with a client order id, the Order stored under  *)
(* that id is exactly the record of that call (a field the record lacks is  *)
(* absent from the stored Order) and the Orders under other ids are as they *)
(* were.                                                                    *)
C20_OrderLastWriteWins ==
    [][(lastOp'.name = "ApplyOrder" /\ lastOp'.arg.clOrdId # NoSymbol)
       => /\ DOMAIN orders' = DOMAIN orders \cup {lastOp'.arg.clOrdId}
          /\ orders'[lastOp'.arg.clOrdId] = lastOp'.arg
          /\ \A id \in DOMAIN orders \ {lastOp'.arg.clOrdId} : orders'[id] = orders[id]]_vars

C20_Witness ==
    /\ lastOp.name = "ApplyOrder"
    /\ lastOp.arg = [Order("ORD1", Num(2)) EXCEPT !.symbol = NoSymbol]
    /\ update_log = << <<"Order", "ORD1">>, <<"Order", "ORD2">>, <<"Order", "ORD1">> >>
    /\ orders["ORD1"].symbol = NoSymbol
    /\ orders["ORD1"].status = Num(2)
    /\ orders["ORD2"] = Order("ORD2", Num(1))

-----------------------------------------------------------------------------
DerivedOf(pos) ==
    [marketValue |-> pos.marketValue, unrealizedPnl |-> pos.unrealizedPnl,
     totalCost |-> pos.totalCost]

(* C21: an accepted ApplyQuote for a symbol with no stored Position stores  *)
(* the Quote of the symbol and leaves the positions collection as it was;   *)
(* and no operation removes a symbol from the positions collection.         *)
C21_QuoteAloneCreatesNoPosition ==
    /\ [][\A s \in Symbols :
            (/\ lastOp'.name = "ApplyQuote"
             /\ QuoteAccepted(lastOp'.arg)
             /\ lastOp'.arg.symbol = s
             /\ s \notin DOMAIN positions)
            => /\ positions' = positions
               /\ s \in DOMAIN market_data'
               /\ QuoteOf(s)'.price = Num(lastOp'.arg.price.v)
               /\ \A r \in Range(positions) : heap'[r] = heap[r]]_vars
    /\ [][DOMAIN positions \subseteq DOMAIN positions']_vars

C21_Witness ==
    /\ lastOp.name = "ApplyQuote"
    /\ lastOp.arg.symbol = "MSFT"
    /\ DOMAIN positions = {"AAPL"}
    /\ DOMAIN market_data = {"MSFT"}
    /\ QuoteOf("MSFT").price = Num(1004)
    /\ update_log[1] = <<"Market data received (no position)", "MSFT">>

(* C22: an accepted ApplyQuote for a symbol whose stored Position has       *)
(* quantity 0 leaves the Position's marketValue, unrealizedPnl and          *)
(* totalCost as they were, and the Quote of the symbol is stored.           *)
C22_ClosedPositionNotRepriced ==
    [][\A s \in Symbols :
         (/\ lastOp'.name = "ApplyQuote"
          /\ QuoteAccepted(lastOp'.arg)
          /\ lastOp'.arg.symbol = s
          /\ PositionOf(s).quantity = Num(0))
         => /\ DerivedOf(PositionOf(s)') = DerivedOf(PositionOf(s))
            /\ QuoteOf(s)'.price = Num(lastOp'.arg.price.v)]_vars

C22_Witness ==
    /\ lastOp.name = "ApplyQuote"
    /\ lastOp.exc = "none"
    /\ lastOp.arg.price = Num(160000)
    /\ PositionOf("AAPL").quantity = Num(0)
    /\ PositionOf("AAPL").currentPrice = Num(160000)
    /\ PositionOf("AAPL").marketValue = Num(7770)
    /\ PositionOf("AAPL").unrealizedPnl = Num(10)
    /\ PositionOf("AAPL").totalCost = Num(2000)
    /\ QuoteOf("AAPL").price = Num(160000)

(* C23: ApplyQuote with a price of exactly 0 is accepted: the quote is      *)
(* stored, and a stored long Position (quantity > 0) gets marketValue 0 and *)
(* unrealizedPnl equal to minus its totalCost.                              *)
C23_ZeroPriceAccepted ==
    (/\ lastOp.name = "ApplyQuote"
     /\ lastOp.arg.symbol # NoSymbol
     /\ lastOp.arg.price \in {Num(0), NumStr(0)})
    => LET s == lastOp.arg.symbol
           pos == PositionOf(s)
       IN /\ s \in DOMAIN market_data
          /\ QuoteOf(s).price = Num(0)
          /\ (IsNumber(pos.quantity) /\ pos.quantity.v > 0)
             => /\ pos.currentPrice = Num(0)
                /\ pos.marketValue = Num(0)
                /\ pos.totalCost = Num(round2(CostBasis(pos) * pos.quantity.v))
                /\ pos.unrealizedPnl = Num(0 - pos.totalCost.v)

C23_Witness ==
    /\ lastOp.name = "ApplyQuote"
    /\ lastOp.arg.price = Num(0)
    /\ QuoteOf("AAPL").price = Num(0)
    /\ PositionOf("AAPL").quantity = Num(100)
    /\ PositionOf("AAPL").marketValue = Num(0)
    /\ PositionOf("AAPL").totalCost = Num(15000000)
    /\ PositionOf("AAPL").unrealizedPnl = Num(-15000000)

-----------------------------------------------------------------------------
(* both layers of the text decode, to whatever JSON value *)
Decoded(m) ==
    /\ Polled(m) /\ m.data.wf
    /\ m.data.inner.tag = "str" => m.data.inner.wf

DataBodyOf(m) == IF HasEnvelope(m) THEN EnvelopeOf(m).body ELSE NoBody

NonEmptyObject(body) == body.tag = "dict" /\ body.rec # EmptyDict

(* C24: on the orders channel a decoded message whose data body is a        *)
(* non-empty object is passed to ApplyOrder whatever its type is, and       *)
(* ApplyOrder stores it under its client order id; a message whose data     *)
(* body is empty, absent or not an object changes no state.                 *)
C24_OrdersAppliedWhateverType ==
    /\ [][(/\ pc["sub"] = "handle"
           /\ inbox.channel = "orders:updates"
           /\ Decoded(inbox)
           /\ pc'["sub"] # "handle")
          => IF NonEmptyObject(DataBodyOf(inbox))
             THEN /\ pc'["sub"] = "acquire"
                  /\ call'["sub"].op = "update_order"
                  /\ call'["sub"].rec = DataBodyOf(inbox).rec
             ELSE /\ pc'["sub"] = "loop"
                  /\ UNCHANGED engineVars]_vars
    /\ [][(/\ pc["sub"] = "body"
           /\ call["sub"].op = "update_order"
           /\ call["sub"].rec.clOrdId # NoSymbol
           /\ pc'["sub"] # "body")
          => /\ call["sub"].rec.clOrdId \in DOMAIN orders'
             /\ orders'[call["sub"].rec.clOrdId] = call["sub"].rec]_vars

C24_Witness ==
    /\ pc["sub"] = "loop"
    /\ HasEnvelope(inbox)
    /\ inbox.channel = "orders:updates"
    /\ EnvelopeOf(inbox).type = "EXECUTION"
    /\ "ORD2" \in DOMAIN orders
    /\ orders["ORD2"] = Order("ORD2", Num(1))
    /\ update_log[1] = <<"Order", "ORD2">>

-----------------------------------------------------------------------------
InOperation == {t \in Threads : pc[t] \in {"body", "body2", "release"}}

(* C25: the state lock is free exactly when no operation of the aggregator  *)
(* is executing: the thread holding it is the one inside an operation, an   *)
(* operation that has ended by a return, an early return or an exception    *)
(* has released it, no thread waits for a lock it holds itself, and a       *)
(* thread waiting for the lock waits for a thread that is inside an         *)
(* operation and can finish it.                                             *)
C25_LockReleasedOnEveryExit ==
    /\ lock = "free" <=> InOperation = {}
    /\ lock # "free" => InOperation = {lock}
    /\ \A t \in Threads :
          pc[t] = "acquire" => (lock # t /\ (lock = "free" \/ lock \in InOperation))

C25_Witness ==
    /\ InLog("Invalid price")
    /\ InLog("Could not fetch market data")
    /\ lock = "ui"
    /\ pc["ui"] = "body"
    /\ pc["sub"] = "loop"

-----------------------------------------------------------------------------
(* the entry of the bootstrap response kept in portfolio_summary *)
SummaryEntry == heap[portfolio_summary[1]]

BootRecordStored ==
    /\ portfolio_summary # <<>>
    /\ "AAPL" \in DOMAIN positions
    /\ PositionOf("AAPL").quantity = BootPosition.quantity

(* C26: ApplyPosition stores the caller's record itself and ApplyQuote      *)
(* updates the stored Position in place: while the bootstrap record is the  *)
(* stored Position, the entry of the retained portfolio summary shows every *)
(* change a quote made to it; and an accepted ApplyQuote stores the         *)
(* caller's quote record itself, with its price overwritten by a number and *)
(* a received timestamp added.                                              *)
C26_StoredRecordsAliased ==
    /\ BootRecordStored
       => (positions["AAPL"] = portfolio_summary[1] /\ SummaryEntry = PositionOf("AAPL"))
    /\ \A t \in Threads :
          pc[t] = "body2"
          => LET quote == heap[call[t].ref]
             IN /\ market_data[quote.symbol] = call[t].ref
                /\ IsNumber(quote.price)
                /\ quote.receivedAt.k = "time"

C26_Witness ==
    /\ pc["main"] = "serve"
    /\ BootRecordStored
    /\ BootPosition.currentPrice = Num(150000)
    /\ SummaryEntry.currentPrice = Num(160000)
    /\ SummaryEntry.marketValue = Num(16000000)
    /\ SummaryEntry.unrealizedPnl = Num(1000000)
    /\ QuoteOf("AAPL").receivedAt.k = "time"

-----------------------------------------------------------------------------
(* a step of stop(): it sets the stop request or closes a handle *)
StopStep ==
    \/ stopped' # stopped
    \/ running /\ ~running'
    \/ pubsub # "closed" /\ pubsub' = "closed"
    \/ redis_client # "closed" /\ redis_client' = "closed"

(* C27: Stop leaves the connectivity flag as it is; the flag goes from true *)
(* to false only in the statement after a failed connect attempt or after  *)
(* a detected connection loss; so when the loop has exited after a Stop the *)
(* flag reads false only if such a failure or loss was logged.              *)
C27_StopKeepsFlag ==
    /\ [][StopStep => connected' = connected]_vars
    /\ [][(connected /\ ~connected') => pc["sub"] \in {"c_fail_flag", "lost_flag"}]_vars
    /\ []((stopped /\ pc["sub"] = "done" /\ ~connected)
          => (InLog("Failed to connect to Redis") \/ InLog("Redis connection lost")))

C27_Witness ==
    /\ stopped
    /\ pc["sub"] = "done"
    /\ ~running
    /\ pubsub = "closed"
    /\ redis_client = "closed"
    /\ connected
    /\ ~InLog("Redis connection lost")

====
